---------------------------- MODULE Spec2Model ----------------------------
(***************************************************************************)
(* Phishing URL checker (src/Code.py): normalize_url, the signal           *)
(* detectors, closest_real_site and check_url, as operators over strings,  *)
(* and the caller of check_url as a state machine.                         *)
(*                                                                         *)
(* A string is a sequence of characters; a character is a one-letter TLA+  *)
(* string, except the named code points below.  The library calls of the   *)
(* source (urllib.parse.urlparse of CPython 3.11, re.search, str methods,  *)
(* the "idna" codec, difflib.SequenceMatcher, tldextract.extract) are      *)
(* modelled by what they compute on these strings.                         *)
(***************************************************************************)
EXTENDS Integers, Sequences, FiniteSets, TLC

VARIABLES pc, raw, verdict, safe_domains, tricky_words, prev, out1, out2

vars == <<pc, raw, verdict, safe_domains, tricky_words, prev, out1, out2>>

---------------------------------------------------------------------------
(* Characters *)

\* Code points outside ASCII, and TAB, are named.
TAB == "TAB"
\* U+FF50 FULLWIDTH LATIN SMALL LETTER P: NFKC and nameprep map it to "p".
FW_P == "U+FF50"
\* U+FF0F FULLWIDTH SOLIDUS: NFKC maps it to "/".
FW_SLASH == "U+FF0F"
\* U+3002 IDEOGRAPHIC FULL STOP: a label separator for IDNA and tldextract.
IDEO_DOT == "U+3002"
\* U+FFFD REPLACEMENT CHARACTER: prohibited by nameprep (table C.6).
REPL == "U+FFFD"

NonAscii == {FW_P, FW_SLASH, IDEO_DOT, REPL}

AsciiLower == {"a","b","c","d","e","f","g","h","i","j","k","l","m",
               "n","o","p","q","r","s","t","u","v","w","x","y","z"}

ToLower == ("A" :> "a") @@ ("B" :> "b") @@ ("C" :> "c") @@ ("D" :> "d") @@
           ("E" :> "e") @@ ("F" :> "f") @@ ("G" :> "g") @@ ("H" :> "h") @@
           ("I" :> "i") @@ ("J" :> "j") @@ ("K" :> "k") @@ ("L" :> "l") @@
           ("M" :> "m") @@ ("N" :> "n") @@ ("O" :> "o") @@ ("P" :> "p") @@
           ("Q" :> "q") @@ ("R" :> "r") @@ ("S" :> "s") @@ ("T" :> "t") @@
           ("U" :> "u") @@ ("V" :> "v") @@ ("W" :> "w") @@ ("X" :> "x") @@
           ("Y" :> "y") @@ ("Z" :> "z")

AsciiUpper == DOMAIN ToLower

Digits == {"0","1","2","3","4","5","6","7","8","9"}

\* str.strip() with no argument strips whitespace; urlsplit lstrips C0
\* controls and space.  Of both sets the model has space and TAB.
Whitespace == {" ", TAB}

\* urllib.parse.scheme_chars
scheme_chars == AsciiLower \cup AsciiUpper \cup Digits \cup {"+", "-", "."}

\* unicodedata.normalize("NFKC", c) for one character
NFKC(c) == IF c = FW_P THEN "p" ELSE IF c = FW_SLASH THEN "/" ELSE c

---------------------------------------------------------------------------
(* str methods *)

Min(S) == CHOOSE m \in S : \A n \in S : m <= n

\* F(e), with e evaluated once however often F uses it: a local variable
With(e, F(_)) == CHOOSE r \in {F(x) : x \in {e}} : TRUE

\* c.lower()
lower_char(c) == IF c \in AsciiUpper THEN ToLower[c] ELSE c

\* s.lower()
lower(s) == [i \in 1..Len(s) |-> lower_char(s[i])]

\* s[from:], 1-based
From(s, from) == SubSeq(s, from, Len(s))

\* s.find(c, start): the first index >= start holding c; 0 when there is none
find(s, c, start) ==
  LET hits == {i \in start..Len(s) : s[i] = c}
  IN  IF hits = {} THEN 0 ELSE Min(hits)

\* s.rfind(c): the last index holding c; 0 when there is none
rfind(s, c) ==
  LET hits == {i \in 1..Len(s) : s[i] = c}
  IN  IF hits = {} THEN 0 ELSE CHOOSE m \in hits : \A n \in hits : n <= m

\* c in s, for one character
has_char(s, c) == \E i \in 1..Len(s) : s[i] = c

\* s.startswith(w, at)
starts_at(s, w, at) ==
  /\ at + Len(w) - 1 <= Len(s)
  /\ \A k \in 1..Len(w) : s[at + k - 1] = w[k]

\* w in s
contains(s, w) == \E at \in 1..(Len(s) - Len(w) + 1) : starts_at(s, w, at)

\* s.count(c)
count(s, c) == Cardinality({i \in 1..Len(s) : s[i] = c})

\* s.replace(c, "")
remove_chars(s, cs) == SelectSeq(s, LAMBDA c : c \notin cs)

\* s.lstrip(chars)
lstrip(s, cs) ==
  LET keep == {i \in 1..Len(s) : s[i] \notin cs}
  IN  IF keep = {} THEN <<>> ELSE From(s, Min(keep))

\* s.rstrip(chars)
rstrip(s, cs) ==
  LET keep == {i \in 1..Len(s) : s[i] \notin cs}
  IN  IF keep = {} THEN <<>>
      ELSE SubSeq(s, 1, CHOOSE m \in keep : \A n \in keep : n <= m)

\* s.strip()
strip(s) == With(lstrip(s, Whitespace), LAMBDA t : rstrip(t, Whitespace))

\* s.partition(c)[0]
before(s, c) ==
  With(find(s, c, 1), LAMBDA i : IF i = 0 THEN s ELSE SubSeq(s, 1, i - 1))

\* s.split(sep) for a one-character separator: never empty, keeps empty pieces
RECURSIVE split(_, _)
split(s, sep) ==
  With(find(s, sep, 1), LAMBDA i :
    IF i = 0 THEN <<s>>
    ELSE <<SubSeq(s, 1, i - 1)>>
         \o With(From(s, i + 1), LAMBDA rest : split(rest, sep)))

\* sep.join(parts)
RECURSIVE join(_, _)
join(parts, sep) ==
  IF Len(parts) = 0 THEN <<>>
  ELSE IF Len(parts) = 1 THEN parts[1]
  ELSE parts[1] \o <<sep>>
       \o With(Tail(parts), LAMBDA rest : join(rest, sep))

---------------------------------------------------------------------------
(* urllib.parse.urlparse (CPython 3.11) *)

\* urllib.parse.uses_params
uses_params == {<<>>, <<"f","t","p">>, <<"h","d","l">>, <<"p","r","o","s","p","e","r","o">>, <<"h","t","t","p">>, <<"i","m","a","p">>,
                <<"h","t","t","p","s">>, <<"s","h","t","t","p">>, <<"r","t","s","p">>, <<"r","t","s","p","s">>, <<"r","t","s","p","u">>, <<"s","i","p">>,
                <<"s","i","p","s">>, <<"m","m","s">>, <<"s","f","t","p">>, <<"t","e","l">>}

\* A call that returned val, and a call that raised exc.
Ok(val) == [ok |-> TRUE, val |-> val]
Raised(exc) == [ok |-> FALSE, exc |-> exc]

\* _splitnetloc(url, 2): the index of the first of "/?#" after the "//",
\* the length plus one when there is none
netloc_end(url) ==
  LET delims == {i \in 3..Len(url) : url[i] \in {"/", "?", "#"}}
  IN  IF delims = {} THEN Len(url) + 1 ELSE Min(delims)

\* _checknetloc(netloc): TRUE when it raises ValueError
checknetloc_raises(netloc) ==
  /\ netloc # <<>>
  /\ \E i \in 1..Len(netloc) : netloc[i] \in NonAscii
  /\ With(remove_chars(netloc, {"@", ":", "#", "?"}), LAMBDA n :
       With([i \in 1..Len(n) |-> NFKC(n[i])], LAMBDA netloc2 :
         /\ n # netloc2
         /\ \E i \in 1..Len(netloc2) :
              netloc2[i] \in {"/", "?", "#", "@", ":"}))

\* The scheme test of urlsplit: url[:i] is a scheme, for i the index of the
\* first ":"
has_scheme(url, i) ==
  /\ i > 1
  /\ url[1] \in AsciiLower \cup AsciiUpper
  /\ \A k \in 1..(i - 1) : url[k] \in scheme_chars

\* urlsplit after the scheme: rest is the url behind "scheme:".  A netloc
\* with "[" and no "]" is an invalid IPv6 URL; no string of the model holds
\* "]", so _check_bracketed_host is never called.
urlsplit_rest(scheme, rest) ==
  With(starts_at(rest, <<"/","/">>, 1), LAMBDA has_netloc :
  With(netloc_end(rest), LAMBDA delim :
  With(IF has_netloc THEN SubSeq(rest, 3, delim - 1) ELSE <<>>, LAMBDA netloc :
    IF has_netloc /\ (has_char(netloc, "[") # has_char(netloc, "]"))
    THEN Raised("ValueError")
    ELSE IF checknetloc_raises(netloc)
    THEN Raised("ValueError")
    ELSE With(IF has_netloc THEN From(rest, delim) ELSE rest, LAMBDA url :
         With(before(url, "#"), LAMBDA no_fragment :
           Ok([scheme |-> scheme, netloc |-> netloc,
               path |-> before(no_fragment, "?")]))))))

\* urlsplit(url): scheme, netloc and the rest before "?" and "#"
urlsplit(url0) ==
  With(lstrip(url0, Whitespace), LAMBDA stripped :
  With(remove_chars(stripped, {TAB}), LAMBDA url :
  With(find(url, ":", 1), LAMBDA i :
    IF has_scheme(url, i)
    THEN With(lower(SubSeq(url, 1, i - 1)), LAMBDA scheme :
         With(From(url, i + 1), LAMBDA rest : urlsplit_rest(scheme, rest)))
    ELSE urlsplit_rest(<<>>, url))))

\* _splitparams(url)[0]: the path without the parameters of its last segment
splitparams(url) ==
  LET slash == rfind(url, "/")
      semi == IF slash > 0 THEN find(url, ";", slash) ELSE find(url, ";", 1)
  IN  IF semi = 0 THEN url ELSE SubSeq(url, 1, semi - 1)

\* urlparse(url): scheme, netloc, path
urlparse(url) ==
  With(urlsplit(url), LAMBDA s :
    IF ~ s.ok THEN s
    ELSE IF s.val.scheme \in uses_params /\ has_char(s.val.path, ";")
    THEN Ok([s.val EXCEPT !.path = splitparams(s.val.path)])
    ELSE s)

---------------------------------------------------------------------------
(* src/Code.py: helpers *)

HTTP_PREFIX == <<"h","t","t","p",":","/","/">>

\* f"{parsed.scheme}://{parsed.netloc}{parsed.path}"
scheme_netloc_path(parsed) ==
  parsed.scheme \o <<":","/","/">> \o parsed.netloc \o parsed.path

normalize_url_extra_slash(u) ==
  With(urlparse(u), LAMBDA first :
  With(urlparse(IF first.ok /\ first.val.scheme = <<>>
                THEN HTTP_PREFIX \o u ELSE u), LAMBDA parsed :
    IF ~ parsed.ok THEN parsed
    ELSE Ok(parsed.val.scheme \o <<":","/","/">> \o parsed.val.netloc \o <<"/">>
            \o parsed.val.path)))

\* normalize_url(u)
normalize_url(u) ==
  With(urlparse(u), LAMBDA parsed :
    IF ~ parsed.ok THEN parsed
    ELSE IF parsed.val.scheme = <<>>
    THEN With(urlparse(HTTP_PREFIX \o u), LAMBDA parsed2 :
           IF ~ parsed2.ok THEN parsed2
           ELSE Ok(scheme_netloc_path(parsed2.val)))
    ELSE Ok(scheme_netloc_path(parsed.val)))


SAFE_DOMAINS == << <<"g","o","o","g","l","e",".","c","o","m">>, <<"f","a","c","e","b","o","o","k",".","c","o","m">>, <<"m","i","c","r","o","s","o","f","t",".","c","o","m">>,
                   <<"a","p","p","l","e",".","c","o","m">>, <<"a","m","a","z","o","n",".","c","o","m">>, <<"p","a","y","p","a","l",".","c","o","m">>, <<"g","i","t","h","u","b",".","c","o","m">>,
                   <<"l","i","n","k","e","d","i","n",".","c","o","m">>, <<"t","w","i","t","t","e","r",".","c","o","m">> >>

TRICKY_WORDS == << <<"l","o","g","i","n">>, <<"s","e","c","u","r","e">>, <<"a","c","c","o","u","n","t">>, <<"u","p","d","a","t","e">>, <<"v","e","r","i","f","y">>,
                   <<"s","i","g","n","i","n">>, <<"a","u","t","h">>, <<"w","e","b","s","c","r">>, <<"b","a","n","k">>, <<"b","o","n","u","s">>, <<"r","e","s","e","t">>,
                   <<"f","r","e","e">>, <<"c","l","a","i","m">>, <<"a","c","t","i","v","i","t","y">>, <<"s","e","c","u","r","i","t","y">>, <<"c","o","n","f","i","r","m">>,
                   <<"s","u","b","m","i","t">>, <<"s","u","p","p","o","r","t">> >>

\* re: (?:\d{1,3}\.){groups}\d{1,3} matches at index at of u
\* re: the length \d{1,3} matches at index at of u, greedily; 0 for no match
digit_run(u, at) ==
  IF at + 2 <= Len(u) /\ u[at] \in Digits /\ u[at + 1] \in Digits
     /\ u[at + 2] \in Digits THEN 3
  ELSE IF at + 1 <= Len(u) /\ u[at] \in Digits /\ u[at + 1] \in Digits THEN 2
  ELSE IF at <= Len(u) /\ u[at] \in Digits THEN 1
  ELSE 0

RECURSIVE dotted_digits_at(_, _, _)
dotted_digits_at(u, at, groups) ==
  With(digit_run(u, at), LAMBDA run :
    IF groups = 0 THEN run >= 1
    ELSE /\ run >= 1
         /\ at + run <= Len(u)
         /\ u[at + run] = "."
         /\ With(at + run + 1, LAMBDA next :
              dotted_digits_at(u, next, groups - 1)))

\* re: http[s]?://(?:\d{1,3}\.){3}\d{1,3} matches at index at of u
ip_regex_at(u, at) ==
  /\ starts_at(u, <<"h","t","t","p">>, at)
  /\ LET q == IF at + 4 <= Len(u) /\ u[at + 4] = "s" THEN at + 5 ELSE at + 4
     IN  /\ starts_at(u, <<":","/","/">>, q)
         /\ dotted_digits_at(u, q + 3, 3)

\* looks_like_ip(u): re.search finds the pattern anywhere in u
looks_like_ip(u) == \E at \in 1..Len(u) : ip_regex_at(u, at)

\* find_bad_words(u), over the list TRICKY_WORDS holds
find_bad_words(u, words) ==
  With(lower(u), LAMBDA lowered :
    SelectSeq(words, LAMBDA w : contains(lowered, w)))

\* too_many_symbols(u)
too_many_symbols(u) ==
  count(u, "-") > 5 \/ count(u, "@") > 1 \/ count(u, "=") > 5

\* is_secure(u)
is_secure(u) ==
  With(lower(u), LAMBDA lowered : starts_at(lowered, <<"h","t","t","p","s",":","/","/">>, 1))

---------------------------------------------------------------------------
(* tldextract.extract (tldextract 5) *)

\* The public suffix list, of which the model has these rules.
PublicSuffixes == {<<"c","o","m">>, <<"n","e","t">>, <<"u","k">>, <<"c","o",".","u","k">>}

\* Separators tldextract takes for dots besides "."
UnicodeDots == {IDEO_DOT}

\* _schemeless_url(url)
schemeless_url(url) ==
  With({i \in 1..(Len(url) - 1) : url[i] = "/" /\ url[i + 1] = "/"},
       LAMBDA starts :
  With(IF starts = {} THEN 0 ELSE Min(starts), LAMBDA d :
    IF d = 1 THEN From(url, 3)
    ELSE IF \/ d < 3
            \/ url[d - 1] # ":"
            \/ \E k \in 1..(d - 2) : url[k] \notin scheme_chars
    THEN url
    ELSE From(url, d + 2)))

\* The host of lenient_netloc from the netloc behind the userinfo
without_port(after_userinfo) ==
  With(find(after_userinfo, "]", 1), LAMBDA closing :
    IF after_userinfo # <<>> /\ after_userinfo[1] = "[" /\ closing > 0
    THEN SubSeq(after_userinfo, 1, closing)
    ELSE With(before(after_userinfo, ":"), LAMBDA host :
         With(strip(host), LAMBDA stripped :
           rstrip(stripped, {"."} \cup UnicodeDots))))

\* lenient_netloc(url): the host, without user, port and root dot
lenient_netloc(url) ==
  With(schemeless_url(url), LAMBDA after_scheme :
  With(before(after_scheme, "/"), LAMBDA no_path :
  With(before(no_path, "?"), LAMBDA no_query :
  With(before(no_query, "#"), LAMBDA host_port :
  With(From(host_port, rfind(host_port, "@") + 1), LAMBDA after_userinfo :
    without_port(after_userinfo))))))

\* One label of a dotted quad: 25[0-5] | 2[0-4][0-9] | [01]?[0-9][0-9]?
ipv4_octet(l) ==
  /\ Len(l) \in 1..3
  /\ \A k \in 1..Len(l) : l[k] \in Digits
  /\ Len(l) = 3 =>
       \/ l[1] \in {"0", "1"}
       \/ l[1] = "2" /\ l[2] \in {"0", "1", "2", "3", "4"}
       \/ l[1] = "2" /\ l[2] = "5" /\ l[3] \in {"0", "1", "2", "3", "4", "5"}

\* The number of trailing labels that form the longest public suffix
suffix_len(labels) ==
  With(Len(labels), LAMBDA n :
  With([k \in 1..n |-> lower(labels[k])], LAMBDA lowered :
  With({k \in 1..n :
          join(SubSeq(lowered, n - k + 1, n), ".") \in PublicSuffixes},
       LAMBDA fits :
    IF fits = {} THEN 0 ELSE CHOOSE k \in fits : \A m \in fits : m <= k)))

\* tldextract.extract(url): subdomain, domain, suffix
extract(url) ==
  With(lenient_netloc(url), LAMBDA host :
  With([i \in 1..Len(host) |->
          IF host[i] \in UnicodeDots THEN "." ELSE host[i]], LAMBDA netloc :
  With(split(netloc, "."), LAMBDA labels :
  With(Len(labels), LAMBDA n :
  With(n - suffix_len(labels), LAMBDA suffix_index :
    IF suffix_index = n /\ n = 4 /\ \A k \in 1..4 : ipv4_octet(labels[k])
    THEN [subdomain |-> <<>>, domain |-> netloc, suffix |-> <<>>]
    ELSE [subdomain |-> IF suffix_index >= 2
                        THEN join(SubSeq(labels, 1, suffix_index - 1), ".")
                        ELSE <<>>,
          domain |-> IF suffix_index >= 1 THEN labels[suffix_index]
                     ELSE <<>>,
          suffix |-> IF suffix_index # n
                     THEN join(SubSeq(labels, suffix_index + 1, n), ".")
                     ELSE <<>>])))))

\* count_subs(u)
count_subs(u) ==
  With(extract(u), LAMBDA parts :
    Len(SelectSeq(split(parts.subdomain, "."), LAMBDA s : strip(s) # <<>>)))

---------------------------------------------------------------------------
(* The "idna" codec (encodings.idna) *)

\* nameprep maps: case folding (table B.2) and NFKC
nameprep_char(c) == lower_char(NFKC(c))

\* ToASCII(label).  A label that is still not ASCII after nameprep would be
\* Punycode-encoded; every character of the model is ASCII after nameprep
\* or prohibited by it.
ToASCII(label) ==
  IF \A i \in 1..Len(label) : label[i] \notin NonAscii
  THEN IF Len(label) \in 1..63 THEN Ok(label) ELSE Raised("UnicodeError")
  ELSE With([i \in 1..Len(label) |-> nameprep_char(label[i])], LAMBDA prepped :
         IF \E i \in 1..Len(prepped) : prepped[i] = REPL
         THEN Raised("UnicodeError")
         ELSE IF Len(prepped) \in 1..63 THEN Ok(prepped)
         ELSE Raised("UnicodeError"))

\* The ASCII fast path of encode: s is ASCII and not empty
idna_encode_ascii(s) ==
  With(split(s, "."), LAMBDA labels :
    IF \/ \E k \in 1..(Len(labels) - 1) : Len(labels[k]) \notin 1..63
       \/ Len(labels[Len(labels)]) >= 64
    THEN Raised("UnicodeError")
    ELSE Ok(s))

\* encode label by label: dots unified, a trailing dot kept
idna_encode_labels(s) ==
  With([i \in 1..Len(s) |-> IF s[i] \in UnicodeDots THEN "." ELSE s[i]],
       LAMBDA dotted :
  With(split(dotted, "."), LAMBDA all_labels :
  With(all_labels[Len(all_labels)] = <<>>, LAMBDA trailing :
  With(IF trailing THEN SubSeq(all_labels, 1, Len(all_labels) - 1)
       ELSE all_labels, LAMBDA labels :
  With([k \in 1..Len(labels) |-> ToASCII(labels[k])], LAMBDA encoded :
    IF \E k \in 1..Len(labels) : ~ encoded[k].ok
    THEN Raised("UnicodeError")
    ELSE Ok(join([k \in 1..Len(labels) |-> encoded[k].val], ".")
            \o (IF trailing THEN <<".">> ELSE <<>>)))))))

\* s.encode("idna").decode("utf-8")
idna_encode(s) ==
  IF s = <<>> THEN Ok(<<>>)
  ELSE IF \A i \in 1..Len(s) : s[i] \notin NonAscii THEN idna_encode_ascii(s)
  ELSE idna_encode_labels(s)

\* get_domain_ascii(u)
get_domain_ascii(u) ==
  With(extract(u), LAMBDA parts :
  With(idna_encode(parts.domain), LAMBDA encoded :
    (IF encoded.ok THEN encoded.val ELSE parts.domain)
    \o <<".">> \o parts.suffix))


---------------------------------------------------------------------------
(* difflib.SequenceMatcher(None, a, b).ratio() *)

\* The blocks of length k common to a[alo..ahi] and b[blo..bhi], as <<i, j>>
blocks(a, b, alo, ahi, blo, bhi, k) ==
  {ij \in (alo..(ahi - k + 1)) \X (blo..(bhi - k + 1)) :
     SubSeq(a, ij[1], ij[1] + k - 1) = SubSeq(b, ij[2], ij[2] + k - 1)}

\* find_longest_match(alo, ahi, blo, bhi): <<i, j, k>> with k the largest
\* block length, of those the block that starts earliest in a, and of those
\* the one that starts earliest in b; k = 0 when nothing matches.  No
\* character is junk: b is shorter than the 200 characters autojunk needs.
RECURSIVE find_longest_match(_, _, _, _, _, _, _)
find_longest_match(a, b, alo, ahi, blo, bhi, k) ==
  IF k = 0 THEN <<alo, blo, 0>>
  ELSE With(blocks(a, b, alo, ahi, blo, bhi, k), LAMBDA found :
         IF found = {} THEN find_longest_match(a, b, alo, ahi, blo, bhi, k - 1)
         ELSE With(Min({ij[1] : ij \in found}), LAMBDA i :
                <<i, Min({ij[2] : ij \in {x \in found : x[1] = i}}), k>>))

\* The summed sizes of get_matching_blocks() within a[alo..ahi], b[blo..bhi]
RECURSIVE matched(_, _, _, _, _, _)
matched(a, b, alo, ahi, blo, bhi) ==
  IF alo > ahi \/ blo > bhi THEN 0
  ELSE With(IF ahi - alo < bhi - blo THEN ahi - alo + 1 ELSE bhi - blo + 1,
            LAMBDA shorter :
       With(find_longest_match(a, b, alo, ahi, blo, bhi, shorter), LAMBDA m :
         IF m[3] = 0 THEN 0
         ELSE m[3] + matched(a, b, alo, m[1] - 1, blo, m[2] - 1)
                   + matched(a, b, m[1] + m[3], ahi, m[2] + m[3], bhi)))

\* ratio(): 2.0 * matches / length as the fraction <<numerator, denominator>>;
\* 1.0 when both strings are empty
ratio(a, b) ==
  IF Len(a) + Len(b) = 0 THEN <<1, 1>>
  ELSE <<2 * matched(a, b, 1, Len(a), 1, Len(b)), Len(a) + Len(b)>>

\* x > y for fractions with positive denominators
gt(x, y) == x[1] * y[2] > y[1] * x[2]

\* x >= y
ge(x, y) == x[1] * y[2] >= y[1] * x[2]

---------------------------------------------------------------------------
(* src/Code.py: closest_real_site and check_url *)

\* Python's None, where a string may stand
None == <<"None">>

\* top_score = 0
ZeroRatio == <<0, 1>>

RECURSIVE closest_loop_ge(_, _, _)
closest_loop_ge(domain, safe, best) ==
  IF safe = <<>> THEN best
  ELSE With(Head(safe), LAMBDA legit :
       With(Tail(safe), LAMBDA rest :
       With(ratio(domain, legit), LAMBDA sim :
       With(IF ge(sim, best[1]) THEN <<sim, legit>> ELSE best, LAMBDA better :
         closest_loop_ge(domain, rest, better)))))

\* The for loop of closest_real_site over the rest of SAFE_DOMAINS, from
\* best = <<top_score, closest>>
RECURSIVE closest_loop(_, _, _)
closest_loop(domain, safe, best) ==
  IF safe = <<>> THEN best
  ELSE With(Head(safe), LAMBDA legit :
       With(Tail(safe), LAMBDA rest :
       With(ratio(domain, legit), LAMBDA sim :
       With(IF gt(sim, best[1]) THEN <<sim, legit>> ELSE best, LAMBDA better :
         closest_loop(domain, rest, better)))))

\* closest_real_site(u), over the list SAFE_DOMAINS holds
closest_real_site(u, safe) ==
  With(get_domain_ascii(u), LAMBDA domain :
    closest_loop(domain, safe, <<ZeroRatio, None>>))

\* ratio > 0.85
above_threshold(r) == r[1] * 100 > 85 * r[2]

lookalike_any(r, legit, u) == above_threshold(r)

\* ratio > 0.85 and legit not in u; "in" raises TypeError on None
lookalike(r, legit, u) == above_threshold(r) /\ ~ contains(u, legit)

score_ip_four(v, similar) ==
    (IF v.ip_in_url THEN 4 ELSE 0)
  + (IF v.bad_words # <<>> THEN 3 ELSE 0)
  + (IF ~ v.https THEN 2 ELSE 0)
  + (IF v.crazy_chars THEN 2 ELSE 0)
  + (IF v.len > 100 THEN 2 ELSE 0)
  + (IF v.subs > 3 THEN 3 ELSE 0)
  + (IF similar THEN 4 ELSE 0)

\* The score of check_url from the signals of the verdict
score_of(v, similar) ==
    (IF v.ip_in_url THEN 5 ELSE 0)
  + (IF v.bad_words # <<>> THEN 3 ELSE 0)
  + (IF ~ v.https THEN 2 ELSE 0)
  + (IF v.crazy_chars THEN 2 ELSE 0)
  + (IF v.len > 100 THEN 2 ELSE 0)
  + (IF v.subs > 3 THEN 3 ELSE 0)
  + (IF similar THEN 4 ELSE 0)

HIGH_RISK == "HIGH RISK: Probably PHISHING"
SUSPICIOUS == "Suspicious"
SEEMS_OK == "Seems OK"

label_of_strict(score) ==
  IF score > 8 THEN HIGH_RISK
  ELSE IF score > 4 THEN SUSPICIOUS
  ELSE SEEMS_OK

\* The label of check_url from the score
label_of(score) ==
  IF score >= 8 THEN HIGH_RISK
  ELSE IF score >= 4 THEN SUSPICIOUS
  ELSE SEEMS_OK

NO_URL == "No URL entered... try again."

strip_none(s) == s

\* u = u.strip() of check_url
strip_input(s) == strip(s)

\* The signals check_url collects for the normalized u
signals(u, safe, tricky) ==
  [original      |-> u,
   ip_in_url     |-> looks_like_ip(u),
   bad_words     |-> find_bad_words(u, tricky),
   crazy_chars   |-> too_many_symbols(u),
   https         |-> is_secure(u),
   len           |-> Len(u),
   subs          |-> count_subs(u),
   closest_match |-> closest_real_site(u, safe)]

\* check_url(u) from the signals v on: the score, the label and the return
scored(v) ==
  IF above_threshold(v.closest_match[1]) /\ v.closest_match[2] = None
  THEN Raised("TypeError")
  ELSE With(score_of(v, lookalike(v.closest_match[1], v.closest_match[2],
                                  v.original)), LAMBDA score :
         Ok([original      |-> v.original,
             ip_in_url     |-> v.ip_in_url,
             bad_words     |-> v.bad_words,
             crazy_chars   |-> v.crazy_chars,
             https         |-> v.https,
             len           |-> v.len,
             subs          |-> v.subs,
             closest_match |-> v.closest_match,
             score         |-> score,
             label         |-> label_of(score)]))

\* check_url(u) after the empty test: u is stripped and not empty
check_nonempty(u0, safe, tricky) ==
  With(normalize_url(u0), LAMBDA n :
    IF ~ n.ok THEN n
    ELSE With(signals(n.val, safe, tricky), LAMBDA v : scored(v)))

\* check_url(u), over the lists SAFE_DOMAINS and TRICKY_WORDS hold: the
\* dictionary it returns, or the exception it raises
check_url(u, safe, tricky) ==
  With(strip_input(u), LAMBDA stripped :
    IF stripped = <<>> THEN Ok([error |-> NO_URL])
    ELSE check_nonempty(stripped, safe, tricky))

---------------------------------------------------------------------------
(* The caller of check_url *)

NoResult == [pending |-> TRUE]

\* The lines a caller passes: a scheme part, a host and a path drawn
\* independently, blank lines, and some whole lines.
Schemes == { <<>>, <<"h","t","t","p",":","/","/">>, <<"h","t","t","p","s",":","/","/">>, <<"H","T","T","P","S",":","/","/">>, <<"f","t","p",":","/","/">> }

Hosts == { <<"p","a","y","p","a","l",".","c","o","m">>, <<"p","a","y","p","a","1",".","c","o","m">>, <<"P","a","y","P","a","l",".","c","o","m">>, <<"p","a","y","p","a","l","U+3002","c","o","m">>,
           <<"U+FF50","a","y","p","a","l",".","c","o","m">>, <<"p","a","y","U+FFFD","a","l",".","c","o","m">>, <<"g",".","c","o","m">>,
           <<"1","9","2",".","1","6","8",".","1",".","1">>, <<"1",".","2",".","3",".","4",".","e","v","i","l",".","c","o","m">>, <<"a",".","b",".","c",".","d",".","g","o","o","g","l","e",".","c","o","m">>,
           <<"e","x","a","m","p","l","e",".","c","o","m">>, <<"e","x","a","m","p","l","e",".","c","o","m",":","8","0","8","0">>, <<"u","s","e","r","@","g","i","t","h","u","b",".","c","o","m">>,
           <<"s","h","o","p",".","c","o",".","u","k">>, <<"[">>, <<"a","U+FF0F","b",".","c","o","m">>, <<>> }

Paths == { <<>>, <<"/","l","o","g","i","n">>, <<"/","a","c","c","o","u","n","t">>, <<"/","p","a","g","e">>, <<"/","h","t","t","p",":","/","/","1",".","2",".","3",".","4">>,
           <<"/","a","-","b","-","c","-","d","-","e","-","f","-","g">>, <<"/","x",";","p","?","q","=","v","e","r","i","f","y","#","t","o","p">> }

Blank == { <<>>, <<" ">>, <<" "," "," ">>, <<" ","TAB"," ">> }

WholeLines ==
  { <<"h","t","t","p","s",":","/","/","s","e","c","u","r","e","-","l","o","g","i","n","-","u","p","d","a","t","e",".","p","a","y","p","a","1",".","c","o","m","-","v","e","r","i","f","y",".","n","e","t","/","a","u","t","h">>,
    <<"m","a","i","l","t","o",":","s","o","m","e","o","n","e","@","e","x","a","m","p","l","e",".","c","o","m">>,
    <<" "," ","h","t","t","p",":","/","/","p","a","y","p","a","l",".","c","o","m","/","a","c","c","o","u","n","t"," ">>,
    <<"h","t","t","p",":","/","/","a","@","b","@","1",".","2",".","3",".","4",".","5",".","6",".","e","x","a","m","p","l","e",".","n","e","t","/","f","r","e","e","-","b","o","n","u","s","-","c","l","a","i","m","-","r","e","s","e","t","-","n","o","w","-","o","k","/","a","a","a","a","a","a","a","a","a","a","a","a","a","a","a","a","a","a","a","a","a","a","a","a","a","a","a","a","a","a","a","a","a","a","a","a","a","a","a","a","a","a","a","a","a","a","a","a","a","a","a","a","a","a","a","a","a","a","a","a","a","a","a","a","a","a","a","a","a","a","a","a","a","a","a","a","a","a","a","a","a","a","a","a","a","a","a","a","a","a","a","a","a","a","a","a","a","a","a","a">>,
    <<"h","t","t","p","s",":","/","/","e","x","a","m","p","l","e",".","c","o","m","/","a","a","a","a","a","a","a","a","a","a","a","a","a","a","a","a","a","a","a","a","a","a","a","a","a","a","a","a","a","a","a","a","a","a","a","a","a","a","a","a","a","a","a","a","a","a","a","a","a","a","a","a","a","a","a","a","a","a","a","a","a","a","a","a","a","a","a","a","a","a","a","a","a","a","a","a","a","a","a","a","a","a","a","a","a","a","a","a","a","a","a","a","a","a","a","a","a","a","a","a","a","a","a","a","a","a","a","a","a","a","a","a","a","a","a","a">> }

Lines ==
  Blank \cup WholeLines
        \cup {s \o h \o p : s \in Schemes, h \in Hosts, p \in Paths}

Init ==
  /\ pc = "idle"
  /\ raw = <<>>
  /\ verdict = NoResult
  /\ safe_domains = SAFE_DOMAINS
  /\ tricky_words = TRICKY_WORDS
  /\ prev = "none"
  /\ out1 = NoResult
  /\ out2 = NoResult

\* A caller passes a line to check_url.
Call ==
  /\ pc = "idle"
  /\ \E line \in Lines : raw' = line
  /\ pc' = "called"
  /\ UNCHANGED <<verdict, safe_domains, tricky_words, prev, out1, out2>>

globals_drop_first(safe, tricky) == <<Tail(safe), tricky>>

\* SAFE_DOMAINS and TRICKY_WORDS after a call of check_url: no statement of
\* check_url or of its helpers assigns to them or changes them in place
globals_after(safe, tricky) == <<safe, tricky>>

\* check_url runs to its return or to an exception.
CheckUrl ==
  /\ pc = "called"
  /\ \E r \in {check_url(raw, safe_domains, tricky_words)} :
       /\ pc' = IF r.ok THEN "returned" ELSE "raised"
       /\ verdict' = IF r.ok THEN r.val ELSE NoResult
  /\ safe_domains' = globals_after(safe_domains, tricky_words)[1]
  /\ tricky_words' = globals_after(safe_domains, tricky_words)[2]
  /\ UNCHANGED <<raw, prev, out1, out2>>

\* The caller has used the result and is ready for the next line.
Return ==
  /\ pc = "returned"
  /\ pc' = "idle"
  /\ prev' = IF "error" \in DOMAIN verdict THEN "error" ELSE "verdict"
  /\ raw' = <<>>
  /\ verdict' = NoResult
  /\ UNCHANGED <<safe_domains, tricky_words, out1, out2>>

Next == Call \/ CheckUrl \/ Return

Spec == Init /\ [][Next]_vars

---------------------------------------------------------------------------
(* normalize_url alone, applied once and again to every short string *)

MaxLen == 4

NormAlphabet == {"a", "H", "1", ":", "/", "?", "#", "[", ";", " ", TAB}

NormWhole == { <<"h","t","t","p",":","/","/","a","/","b",";","c">>, <<"H","T","T","P",":","/","/","a","/","b">>, <<"f","t","p",":","/","/","a","/","b","/","c">>, <<"a",":","/","/","b","?","c","#","d">> }

NormInputs ==
  NormWhole \cup UNION {[1..n -> NormAlphabet] : n \in 0..MaxLen}

InitNormalize ==
  /\ pc = "n0"
  /\ raw \in NormInputs
  /\ verdict = NoResult
  /\ safe_domains = SAFE_DOMAINS
  /\ tricky_words = TRICKY_WORDS
  /\ prev = "none"
  /\ out1 = NoResult
  /\ out2 = NoResult

Normalize ==
  /\ pc = "n0"
  /\ out1' = normalize_url(raw)
  /\ pc' = "n1"
  /\ UNCHANGED <<raw, verdict, safe_domains, tricky_words, prev, out2>>

NormalizeAgain ==
  /\ pc = "n1"
  /\ out1.ok
  /\ out2' = normalize_url(out1.val)
  /\ pc' = "n2"
  /\ UNCHANGED <<raw, verdict, safe_domains, tricky_words, prev, out1>>

NextNormalize == Normalize \/ NormalizeAgain

SpecNormalize == InitNormalize /\ [][NextNormalize]_vars

---------------------------------------------------------------------------
(* closest_real_site alone, over sublists of SAFE_DOMAINS *)

MaxSafe == 2

\* SAFE_DOMAINS itself and its sublists of at most MaxSafe entries, in order
SafeLists ==
  {SAFE_DOMAINS} \cup
  { [k \in 1..Cardinality(S) |->
       SAFE_DOMAINS[CHOOSE i \in S : Cardinality({j \in S : j < i}) = k - 1]] :
    S \in {T \in SUBSET (1..Len(SAFE_DOMAINS)) : Cardinality(T) <= MaxSafe} }

ClosestInputs == { <<"h","t","t","p",":","/","/","g",".","c","o","m">>, <<"h","t","t","p",":","/","/","p","a","y","p","a","1",".","c","o","m","/","l","o","g","i","n">>,
                   <<"h","t","t","p","s",":","/","/","p","a","y","p","a","l",".","c","o","m">>, <<"h","t","t","p",":","/","/","1","9","2",".","1","6","8",".","1",".","1","/">>,
                   <<"h","t","t","p",":","/","/","a",".","b",".","e","v","i","l",".","n","e","t">>, <<"h","t","t","p",":","/","/","a","p","p","l","e",".","c","o",".","u","k">>,
                   <<"h","t","t","p",":","/","/","U+FF50","a","y","p","a","l",".","c","o","m">>, <<"h","t","t","p",":","/","/">>, <<"f","t","p",":","/","/","x",".","c","o","m">>,
                   <<"h","t","t","p",":","/","/","a","m","a","z","z","o","n",".","c","o","m">> }

InitClosest ==
  /\ pc = "c0"
  /\ raw \in ClosestInputs
  /\ verdict = NoResult
  /\ safe_domains \in SafeLists
  /\ tricky_words = TRICKY_WORDS
  /\ prev = "none"
  /\ out1 = NoResult
  /\ out2 = NoResult

Closest ==
  /\ pc = "c0"
  /\ out1' = closest_real_site(raw, safe_domains)
  /\ pc' = "c1"
  /\ UNCHANGED <<raw, verdict, safe_domains, tricky_words, prev, out2>>

NextClosest == Closest

SpecClosest == InitClosest /\ [][NextClosest]_vars

---------------------------------------------------------------------------
(* Properties *)

\* s is empty or holds whitespace only
blank(s) == \A i \in 1..Len(s) : s[i] \in Whitespace

\* check_url has returned a Verdict (a dictionary with no "error" key)
HasVerdict == pc = "returned" /\ "score" \in DOMAIN verdict

\* The points of the six rules that do not look at the safe list
rule_points(v) ==
    (IF v.ip_in_url THEN 5 ELSE 0)
  + (IF Len(v.bad_words) > 0 THEN 3 ELSE 0)
  + (IF v.https THEN 0 ELSE 2)
  + (IF v.crazy_chars THEN 2 ELSE 0)
  + (IF v.len > 100 THEN 2 ELSE 0)
  + (IF v.subs > 3 THEN 3 ELSE 0)

\* The fraction r is 1.0
is_one(r) == r[1] = r[2]

\* C1: every Verdict check_url returns has an integer score in 0..21, and
\* its label is the high-risk one iff score >= 8, the suspicious one iff
\* 4 <= score < 8, and the seems-ok one iff score < 4.
C1_ScoreRangeAndLabel ==
  HasVerdict =>
    /\ verdict.score \in 0..21
    /\ verdict.label = HIGH_RISK <=> verdict.score >= 8
    /\ verdict.label = SUSPICIOUS <=> (4 <= verdict.score /\ verdict.score < 8)
    /\ verdict.label = SEEMS_OK <=> verdict.score < 4

\* A Verdict right on the high-risk threshold.
C1_Witness == HasVerdict /\ verdict.score = 8 /\ verdict.label = HIGH_RISK

\* C2: for an input that is empty or whitespace only check_url returns the
\* dictionary with the one key "error" and a non-empty message; it neither
\* raises nor returns a score, a label or a normalized URL.
C2_BlankInputIsError ==
  (pc \in {"returned", "raised"} /\ blank(raw)) =>
    /\ pc = "returned"
    /\ DOMAIN verdict = {"error"}
    /\ verdict.error # ""

\* check_url has returned for a line of three spaces.
C2_Witness ==
  pc = "returned" /\ raw = <<" "," "," ">> /\ "error" \in DOMAIN verdict

\* C3: for every input that is not empty after stripping, check_url
\* completes and returns a Verdict with score and label; no stage raises.
C3_AlwaysAVerdict ==
  (pc \in {"returned", "raised"} /\ ~ blank(raw)) =>
    /\ pc = "returned"
    /\ "score" \in DOMAIN verdict
    /\ "label" \in DOMAIN verdict

\* C4: the score of a Verdict is the sum of the rule points over the signals
\* the same Verdict records: +5 ip_in_url, +3 bad_words not empty, +2 not
\* https, +2 crazy_chars, +2 len > 100, +3 subs > 3, +4 closest-match ratio
\* above 0.85 with the matched domain not a substring of the normalized URL;
\* an insecure IP-literal URL with one trigger word and nothing else scores 10.
C4_ScoreIsSumOfRules ==
  HasVerdict =>
    /\ verdict.score =
         rule_points(verdict)
         + (IF /\ verdict.closest_match[1][1] * 100
                    > 85 * verdict.closest_match[1][2]
               /\ ~ contains(verdict.original, verdict.closest_match[2])
            THEN 4 ELSE 0)
    /\ raw = <<"h","t","t","p",":","/","/","1","9","2",".","1","6","8",".","1",".","1","/","l","o","g","i","n">> => verdict.score = 10

\* The scenario of the claim: IP literal, trigger word "login", not https.
C4_Witness ==
  /\ HasVerdict
  /\ raw = <<"h","t","t","p",":","/","/","1","9","2",".","1","6","8",".","1",".","1","/","l","o","g","i","n">>
  /\ verdict.ip_in_url
  /\ verdict.bad_words = << <<"l","o","g","i","n">> >>
  /\ ~ verdict.https
  /\ verdict.score = 10

C6_MaxRatioEarliestEntry ==
  pc = "c1" =>
    LET domain == get_domain_ascii(raw)
        r == [k \in 1..Len(safe_domains) |-> ratio(domain, safe_domains[k])]
    IN  IF safe_domains = <<>>
        THEN out1[1][1] = 0 /\ out1[2] = None
        ELSE \E k \in 1..Len(safe_domains) :
               /\ out1[2] = safe_domains[k]
               /\ out1[1][1] * r[k][2] = r[k][1] * out1[1][2]
               /\ \A m \in 1..Len(safe_domains) : ge(r[k], r[m])
               /\ \A m \in 1..(k - 1) : gt(r[k], r[m])

\* Two entries tie for the largest ratio and the earlier one is returned.
C6_Witness ==
  /\ pc = "c1"
  /\ safe_domains = SAFE_DOMAINS
  /\ out1[2] = <<"g","o","o","g","l","e",".","c","o","m">>
  /\ ratio(get_domain_ascii(raw), <<"g","o","o","g","l","e",".","c","o","m">>)
       = ratio(get_domain_ascii(raw), <<"g","i","t","h","u","b",".","c","o","m">>)

\* C7: for every non-empty input without "://" normalize_url prepends the
\* default scheme, so the normalized URL starts with "http://"; and the
\* normalized URL of every Verdict has a non-empty scheme.
C7_DefaultSchemePrepended ==
  HasVerdict =>
    /\ ~ contains(strip(raw), <<":","/","/">>)
         => starts_at(verdict.original, <<"h","t","t","p",":","/","/">>, 1)
    /\ find(verdict.original, ":", 1) > 1

\* x is scheme://rest with a scheme of scheme characters that starts with a
\* letter, and no query string and no fragment
url_form(x) ==
  LET i == find(x, ":", 1)
  IN  /\ i > 1
      /\ x[1] \in AsciiLower \cup AsciiUpper
      /\ \A k \in 1..(i - 1) : x[k] \in scheme_chars
      /\ starts_at(x, <<":","/","/">>, i)
      /\ ~ has_char(x, "?")
      /\ ~ has_char(x, "#")

host_portion(u) ==
  LET starts == {i \in 1..Len(u) : starts_at(u, <<":","/","/">>, i)}
      rest == IF starts = {} THEN <<>> ELSE From(u, Min(starts) + 3)
  IN  before(rest, "/")

\* The one way normalize_url fails: urlparse raises ValueError for a host
\* with an unbalanced "[" (the failure C3 is about)
raises_for_bracket(r, u) == ~ r.ok /\ has_char(host_portion(u), "[")

dotted_quad(h) ==
  LET groups == split(h, ".")
  IN  /\ Len(groups) = 4
      /\ \A k \in 1..4 : /\ Len(groups[k]) \in 1..3
                         /\ \A i \in 1..Len(groups[k]) : groups[k][i] \in Digits

\* C9: ip_in_url is true exactly when the host portion of the normalized
\* URL, the text right after its scheme delimiter, is a dotted quad; a
\* dotted quad elsewhere does not set it, and the scheme does not matter.
C9_IpFlagIffHostIsDottedQuad ==
  HasVerdict =>
    (verdict.ip_in_url <=> dotted_quad(host_portion(verdict.original)))

\* The entry of the safe list the extracted domain of the Verdict equals
matched_entry == get_domain_ascii(verdict.original)

\* The extracted ASCII domain of the Verdict is an entry of the safe list
domain_is_safe ==
  /\ HasVerdict
  /\ \E k \in 1..Len(SAFE_DOMAINS) : SAFE_DOMAINS[k] = matched_entry

\* C10 as claimed: when the extracted ASCII domain equals a safe-list entry,
\* the closest match is (1.0, entry), the entry is a substring of the
\* normalized URL, and the +4 look-alike points are not added.
C10_SafeDomainNeverLookalike ==
  domain_is_safe =>
    /\ is_one(verdict.closest_match[1])
    /\ verdict.closest_match[2] = matched_entry
    /\ contains(verdict.original, matched_entry)
    /\ verdict.score = rule_points(verdict)

\* C10 amended: when the extracted ASCII domain equals a safe-list entry,
\* the closest match is (1.0, entry) and the +4 points are added exactly
\* when the entry is not a substring of the normalized URL; it is a
\* substring whenever the normalized URL is ASCII without upper-case
\* letters, and "http://paypal.com/account" scores 5, "suspicious".
C10_SafeDomainPointsIffNotSubstring ==
  domain_is_safe =>
    /\ is_one(verdict.closest_match[1])
    /\ verdict.closest_match[2] = matched_entry
    /\ verdict.score = rule_points(verdict)
         + (IF contains(verdict.original, matched_entry) THEN 0 ELSE 4)
    /\ (\A i \in 1..Len(verdict.original) :
          verdict.original[i] \notin NonAscii \cup AsciiUpper)
         => contains(verdict.original, matched_entry)
    /\ raw = <<"h","t","t","p",":","/","/","p","a","y","p","a","l",".","c","o","m","/","a","c","c","o","u","n","t">>
         => verdict.score = 5 /\ verdict.label = SUSPICIOUS

\* Scenario A: the safe domain itself, with a trigger word, over http.
C10_Witness ==
  /\ domain_is_safe
  /\ raw = <<"h","t","t","p",":","/","/","p","a","y","p","a","l",".","c","o","m","/","a","c","c","o","u","n","t">>
  /\ verdict.closest_match = << <<20, 20>>, <<"p","a","y","p","a","l",".","c","o","m">> >>
  /\ verdict.score = 5

=============================================================================
